---- MODULE Spec2Model ----
(***************************************************************************)
(* The per-round driver of src/voter/voting_round.rs: VotingRound::run,    *)
(* with handle_vote, primary_propose, prevote, precommit and the           *)
(* completion check.  One loop iteration of run is these steps:            *)
(*   pc = "select"  handle_inputs! consumes one event,                     *)
(*   pc = "phase"   the phase logic of the matched State arm,              *)
(*   pc = "send"    the arm is suspended at the await of the hint's send,  *)
(*                  the sink not yet ready for the hint,                   *)
(*   pc = "flush"   still suspended there, the sink holding the hint and   *)
(*                  not yet flushed,                                       *)
(*   pc = "check"   the completion check at the end of the iteration.      *)
(* The round ledger (crate::round::Round) and the Environment are external *)
(* to the file; they are modelled at their interface.                      *)
(***************************************************************************)
EXTENDS Integers, Sequences, FiniteSets, TLC

VARIABLES
    voting,             \* self.voting: "No" | "Yes" | "Primary"
    state,              \* self.state: the phase matched by the loop, or "None"
    prevote_timer,      \* the prevote timer: "pending" | "terminated" | "dropped"
    precommit_timer,    \* the precommit timer: "pending" | "terminated" | "dropped"
    incoming,           \* self.incoming (Fuse): "open" | "done"
    updates,            \* last_round_state_updates: "absent" | "open" | "done"
    round,              \* self.round, the round ledger
    primary_block,      \* self.primary_block: Option<(H, N)>
    last_round_state,   \* the local last_round_state: Option<RoundState>
    outgoing,           \* sends attempted on self.outgoing, each with whether
                        \* the sink accepted the message (ok)
    env_calls,          \* notifications made on self.env, each with its outcome
    pc,                 \* "select" | "phase" | "send" | "flush" | "check" | "done"
    result,             \* what run returned, "Running" while it has not
    timer_ready,        \* the value handle_inputs! returned in this iteration
    start_state,        \* the phase this iteration started with
    event,              \* the event consumed by the last select
    n_events,           \* number of events consumed so far
    ever_held           \* whether a previous-round-state snapshot was ever held

vars == <<voting, state, prevote_timer, precommit_timer, incoming, updates, round,
          primary_block, last_round_state, outgoing, env_calls, pc, result,
          timer_ready, start_state, event, n_events, ever_held>>

(***************************************************************************)
(* Bounds and input domains                                                *)
(***************************************************************************)
\* run consumes at most this many events in a behaviour of the model
MaxEvents == 3

\* Option<T>: None is the empty sequence, Some(x) the one-element sequence
None == <<>>
Some(x) == <<x>>
IsSome(o) == o # <<>>
Unwrap(o) == o[1]

\* (hash, number) pairs of a small chain: A <- B <- C
BlockA == <<"A", 1>>
BlockB == <<"B", 2>>
BlockC == <<"C", 3>>
Blocks == {BlockA, BlockB, BlockC}
\* the parent of a block, by hash; the root A has none
ParentHash(h) ==
    CASE h = "B" -> Some("A")
      [] h = "C" -> Some("B")
      [] OTHER   -> None

Voters == {"v1", "v2"}
Kinds == {"Prevote", "Precommit", "PrimaryPropose"}

\* Message<H, N>: a kind and a target; SignedMessage adds the signer and signature
MessageOf(k, b) == [kind |-> k, target_hash |-> b[1], target_number |-> b[2]]
SignedMessages ==
    { [message |-> MessageOf(k, b), id |-> v, signature |-> s] :
        k \in Kinds, b \in Blocks, v \in Voters, s \in {"good", "bad"} }

\* RoundState<H, N> snapshots of the previous round
SnapshotBlocks == {BlockB, BlockC}
OptionBlocks == {None} \cup {Some(b) : b \in SnapshotBlocks}
RoundStates == [estimate : OptionBlocks, finalized : OptionBlocks]

(***************************************************************************)
(* Voting (the role)                                                       *)
(***************************************************************************)
is_active(v) == v \in {"Yes", "Primary"}

is_primary(v) == v = "Primary"

(***************************************************************************)
(* The round ledger and the Environment, at their interface                *)
(***************************************************************************)
RoundNumber == 1
RoundBase == BlockB
PrimaryVoter == "v1"

\* Environment::is_equal_or_descendent_of(base, block), on hashes
RECURSIVE is_equal_or_descendent_of(_, _)
is_equal_or_descendent_of(base, block) ==
    \/ block = base
    \/ /\ IsSome(ParentHash(block))
       /\ is_equal_or_descendent_of(base, Unwrap(ParentHash(block)))

\* what the ledger may answer to a well-formed import of a vote of a kind:
\* the values completable() and finalized() take afterwards (finalized moves
\* only on precommits and never backwards) and whether it found the vote
\* to equivocate with an earlier one of that kind
ImportOutcomes(r, kind) ==
    { [completable |-> c, finalized |-> f, equivocation |-> e] :
        c \in BOOLEAN,
        f \in IF kind = "Precommit"
              THEN {r.finalized} \cup
                   { Some(b) : b \in { x \in SnapshotBlocks :
                        r.finalized = None \/ x[2] >= Unwrap(r.finalized)[2] } }
              ELSE {r.finalized},
        e \in IF (kind = "Prevote" /\ r.prevotes > 0) \/
                 (kind = "Precommit" /\ r.precommits > 0)
              THEN BOOLEAN ELSE {FALSE} }

\* the evidence in an ImportResult
Evidence(id, vote, outcome) ==
    IF outcome.equivocation
    THEN Some([offender |-> id])
    ELSE None

\* Round::import_prevote: Err on a malformed vote, else the ledger and the evidence
import_prevote(r, prevote, id, signature, outcome) ==
    IF signature # "good"
    THEN [ok |-> FALSE, round |-> r, equivocation |-> None]
    ELSE [ok |-> TRUE,
          round |-> [r EXCEPT !.prevotes = @ + 1,
                              !.completable = outcome.completable,
                              !.finalized = outcome.finalized],
          equivocation |-> Evidence(id, prevote, outcome)]

\* Round::import_precommit
import_precommit(r, precommit, id, signature, outcome) ==
    IF signature # "good"
    THEN [ok |-> FALSE, round |-> r, equivocation |-> None]
    ELSE [ok |-> TRUE,
          round |-> [r EXCEPT !.precommits = @ + 1,
                              !.completable = outcome.completable,
                              !.finalized = outcome.finalized],
          equivocation |-> Evidence(id, precommit, outcome)]

InitRounds ==
    { [number |-> RoundNumber, base |-> RoundBase, primary_voter |-> PrimaryVoter,
       prevotes |-> 0, precommits |-> 0,
       completable |-> c, finalized |-> f] :
        c \in BOOLEAN, f \in OptionBlocks }

(***************************************************************************)
(* VotingRound::handle_vote                                                *)
(***************************************************************************)
EnvCall(name, number, arg, ok) == [call |-> name, round |-> number, arg |-> arg, ok |-> ok]

\* what handle_vote leaves behind: its Result and the fields it may touch
Handled(ok, r, pb, calls) == [ok |-> ok, round |-> r, primary_block |-> pb, env_calls |-> calls]

\* the arm of a Prevote or a Precommit after the import: the ? on its result
\* and the report of the evidence to the Environment callback called name
import_arm_unchecked(same, name, import_result) ==
    Handled(TRUE, import_result.round, same.primary_block,
            IF IsSome(import_result.equivocation)
            THEN Append(same.env_calls,
                        EnvCall(name, import_result.round.number,
                                Unwrap(import_result.equivocation), TRUE))
            ELSE same.env_calls)

import_arm_unreported(same, name, import_result) ==
    IF ~import_result.ok
    THEN [same EXCEPT !.ok = FALSE]
    ELSE Handled(TRUE, import_result.round, same.primary_block, same.env_calls)

import_arm(same, name, import_result) ==
    IF ~import_result.ok
    THEN [same EXCEPT !.ok = FALSE]
    ELSE Handled(TRUE, import_result.round, same.primary_block,
                 IF IsSome(import_result.equivocation)
                 THEN Append(same.env_calls,
                             EnvCall(name, import_result.round.number,
                                     Unwrap(import_result.equivocation), TRUE))
                 ELSE same.env_calls)

primary_arm_any_signer(same, r, id, message) ==
    [same EXCEPT !.primary_block =
        Some(<<message.target_hash, message.target_number>>)]

\* the arm of a PrimaryPropose: the hint is cached if its signer is the
\* ledger's primary voter
primary_arm(same, r, id, message) ==
    LET primary_id == r.primary_voter IN
    IF id = primary_id
    THEN [same EXCEPT !.primary_block =
              Some(<<message.target_hash, message.target_number>>)]
    ELSE same

\* the match on the message kind
vote_dispatch(r, pb, calls, vote, outcome) ==
    LET message   == vote.message
        signature == vote.signature
        id        == vote.id
        same      == Handled(TRUE, r, pb, calls)
    IN
    CASE message.kind = "Prevote" ->
            import_arm(same, "prevote_equivocation",
                       import_prevote(r, message, id, signature, outcome))
      [] message.kind = "Precommit" ->
            import_arm(same, "precommit_equivocation",
                       import_precommit(r, message, id, signature, outcome))
      [] OTHER -> primary_arm(same, r, id, message)

handle_vote_unfiltered(r, pb, calls, vote, outcome) ==
    vote_dispatch(r, pb, calls, vote, outcome)

\* handle_vote on the driver fields (r, pb) with the Environment's call log;
\* outcome is what the ledger answers if the vote is imported
handle_vote(r, pb, calls, vote, outcome) ==
    IF ~is_equal_or_descendent_of(r.base[1], vote.message.target_hash)
    THEN Handled(TRUE, r, pb, calls)
    ELSE vote_dispatch(r, pb, calls, vote, outcome)

(***************************************************************************)
(* VotingRound::primary_propose, prevote, precommit                        *)
(***************************************************************************)
should_send_primary_at_or_above(last_round_estimate, maybe_finalized) ==
    IF IsSome(maybe_finalized)
    THEN last_round_estimate[2] >= Unwrap(maybe_finalized)[2]
    ELSE TRUE

\* should_send_primary: the last round estimate has not been finalized
should_send_primary(last_round_estimate, maybe_finalized) ==
    IF IsSome(maybe_finalized)
    THEN last_round_estimate[2] > Unwrap(maybe_finalized)[2]
    ELSE TRUE

primary_hint_due_any_role(v, lrs) ==
    /\ IsSome(lrs.estimate)
    /\ should_send_primary(Unwrap(lrs.estimate), lrs.finalized)

\* the match arm primary_propose takes: TRUE when it builds and sends the hint
primary_hint_due(v, lrs) ==
    /\ IsSome(lrs.estimate)
    /\ is_primary(v)
    /\ should_send_primary(Unwrap(lrs.estimate), lrs.finalized)

\* the PrimaryPropose built from the last round estimate
hint_of(last_round_estimate) ==
    [kind |-> "PrimaryPropose",
     target_hash |-> last_round_estimate[1],
     target_number |-> last_round_estimate[2]]

primary_propose_announce_unlogged(v, r, calls, lrs, proposed_ok) ==
    IF primary_hint_due(v, lrs)
    THEN [res |-> IF proposed_ok THEN "Await" ELSE "Err:proposed", env_calls |-> calls]
    ELSE [res |-> "Ok", env_calls |-> calls]

\* primary_propose up to its await point: res is "Ok" when there is nothing
\* to send (the function returns Ok(false)), the error of env.proposed, or
\* "Await" when the notification was made and the hint is handed to the
\* sink; proposed_ok is what the Environment answers if it is called
primary_propose_announce(v, r, calls, lrs, proposed_ok) ==
    IF primary_hint_due(v, lrs)
    THEN LET primary == hint_of(Unwrap(lrs.estimate))
             called == Append(calls, EnvCall("proposed", r.number, primary, proposed_ok))
         IN [res |-> IF proposed_ok THEN "Await" ELSE "Err:proposed",
             env_calls |-> called]
    ELSE [res |-> "Ok", env_calls |-> calls]

\* what the send awaited in primary_propose may come to: the sink takes the
\* hint and flushes it, it fails before it has taken the hint (poll_ready or
\* start_send), or it takes the hint and fails to flush it
SendOutcomes == {"Ok", "NotAccepted", "FlushFailed"}

\* the send from the moment the sink is ready or has failed: the hint is
\* handed over (start_send) if accepted, and the flush is awaited
primary_propose_start_send(out, primary, accepted) ==
    [res |-> IF accepted THEN "Await" ELSE "Err:sink",
     outgoing |-> Append(out, [msg |-> primary, ok |-> accepted])]

\* the send from the moment the flush resolves, and return Ok(true)
primary_propose_flush(flushed) ==
    [res |-> IF flushed THEN "Ok" ELSE "Err:sink", value |-> flushed]

\* outgoing.send(..).await? as a whole, for a send that comes to send_outcome
primary_propose_send(out, primary, send_outcome) ==
    LET s == primary_propose_start_send(out, primary, send_outcome # "NotAccepted") IN
    IF s.res # "Await"
    THEN [res |-> s.res, value |-> FALSE, outgoing |-> s.outgoing]
    ELSE LET f == primary_propose_flush(send_outcome = "Ok") IN
         [res |-> f.res, value |-> f.value, outgoing |-> s.outgoing]

\* primary_propose as a whole, for a send that resolves: res is "Ok" (with
\* the bool in value), or the error of env.proposed or of the sink
primary_propose(v, r, calls, out, lrs, proposed_ok, send_outcome) ==
    LET a == primary_propose_announce(v, r, calls, lrs, proposed_ok) IN
    IF a.res = "Await"
    THEN LET s == primary_propose_send(out, hint_of(Unwrap(lrs.estimate)),
                                       send_outcome) IN
         [res |-> s.res, value |-> s.value, env_calls |-> a.env_calls,
          outgoing |-> s.outgoing]
    ELSE [res |-> a.res, value |-> FALSE, env_calls |-> a.env_calls, outgoing |-> out]

prevote_never(prevote_timer_ready, lrs) == FALSE

\* prevote: Ok(true) whatever its arguments, nothing sent
prevote(prevote_timer_ready, lrs) == TRUE

\* precommit: Ok(true) whatever its arguments, nothing sent
precommit(precommit_timer_ready, lrs) == TRUE

(***************************************************************************)
(* The phase logic of run's match arms                                     *)
(***************************************************************************)
start_arm_state_hint_unrecorded(prevoted, proposed) ==
    IF prevoted /\ ~proposed THEN "Prevoted" ELSE "Start"

\* the State written back by the Start arm
start_arm_state(prevoted, proposed) ==
    IF prevoted THEN "Prevoted"
    ELSE IF proposed THEN "Proposed"
    ELSE "Start"

\* the State written back by the Proposed arm
proposed_arm_state(prevoted) ==
    IF prevoted THEN "Prevoted" ELSE "Proposed"

prevoted_arm_state_restart(precommitted) ==
    IF precommitted THEN "Start" ELSE "Prevoted"

\* the State written back by the Prevoted arm
prevoted_arm_state(precommitted) ==
    IF precommitted THEN "Precommitted" ELSE "Prevoted"

\* the Start arm from the moment the flush of the send awaited in
\* primary_propose resolves: the rest of primary_propose, prevote and the
\* State written back
start_arm_resume(st, calls, out, lrs, ready, flushed) ==
    LET f == primary_propose_flush(flushed) IN
    IF f.res # "Ok"
    THEN [res |-> f.res, state |-> st, env_calls |-> calls, outgoing |-> out]
    ELSE [res |-> "Ok", state |-> start_arm_state(prevote(ready, lrs), f.value),
          env_calls |-> calls, outgoing |-> out]

\* the whole arm for phase st, for a send that resolves: res, the State
\* written back and the Environment's logs
phase_logic(st, v, r, calls, out, maybe_lrs, ready, proposed_ok, send_outcome) ==
    LET keep == [res |-> "Ok", state |-> st, env_calls |-> calls, outgoing |-> out] IN
    CASE st = "Start" ->
            IF IsSome(maybe_lrs)
            THEN LET lrs == Unwrap(maybe_lrs)
                     pp  == primary_propose(v, r, calls, out, lrs, proposed_ok, send_outcome)
                 IN
                 IF pp.res # "Ok"
                 THEN [res |-> pp.res, state |-> st, env_calls |-> pp.env_calls,
                       outgoing |-> pp.outgoing]
                 ELSE [res |-> "Ok",
                       state |-> start_arm_state(prevote(ready, lrs), pp.value),
                       env_calls |-> pp.env_calls, outgoing |-> pp.outgoing]
            ELSE keep
      [] st = "Proposed" ->
            IF IsSome(maybe_lrs)
            THEN [keep EXCEPT !.state =
                      proposed_arm_state(prevote(ready, Unwrap(maybe_lrs)))]
            ELSE keep
      [] st = "Prevoted" ->
            IF IsSome(maybe_lrs)
            THEN [keep EXCEPT !.state =
                      prevoted_arm_state(precommit(ready, Unwrap(maybe_lrs)))]
            ELSE keep
      [] OTHER -> keep

(***************************************************************************)
(* The completion check at the end of an iteration                         *)
(***************************************************************************)
last_round_estimate_finalized_wildcard_true(maybe_lrs, r) ==
    IF maybe_lrs = None
    THEN TRUE
    ELSE LET lrs == Unwrap(maybe_lrs) IN
         IF IsSome(lrs.estimate) /\ IsSome(lrs.finalized)
         THEN \/ Unwrap(lrs.estimate)[2] <= Unwrap(lrs.finalized)[2]
              \/ IsSome(r.finalized) /\ Unwrap(lrs.estimate)[2] <= Unwrap(r.finalized)[2]
         ELSE TRUE

\* last_round_estimate_finalized, the match on last_round_state
last_round_estimate_finalized(maybe_lrs, r) ==
    IF maybe_lrs = None
    THEN TRUE
    ELSE LET lrs == Unwrap(maybe_lrs) IN
         IF IsSome(lrs.estimate) /\ IsSome(lrs.finalized)
         THEN LET last_round_estimate  == Unwrap(lrs.estimate)[2]
                  last_round_finalized == Unwrap(lrs.finalized)[2]
                  finalized_in_last_round == last_round_estimate <= last_round_finalized
                  finalized_in_current_round ==
                      IF IsSome(r.finalized)
                      THEN last_round_estimate <= Unwrap(r.finalized)[2]
                      ELSE FALSE
              IN finalized_in_last_round \/ finalized_in_current_round
         ELSE FALSE

\* whether run returns Ok(()) at the end of the iteration
round_finished(maybe_lrs, r) ==
    r.completable /\ last_round_estimate_finalized(maybe_lrs, r)

(***************************************************************************)
(* Construction                                                            *)
(***************************************************************************)
NoEvent == [type |-> "none"]

InitChecksFirst ==
    /\ voting \in {"No", "Yes", "Primary"}
    /\ state \in {"Start", "None"}
    /\ prevote_timer = (IF state = "Start" THEN "pending" ELSE "dropped")
    /\ precommit_timer = (IF state = "Start" THEN "pending" ELSE "dropped")
    /\ incoming = "open"
    /\ updates \in {"absent", "open"}
    /\ round \in InitRounds
    /\ primary_block = None
    /\ last_round_state \in {None} \cup {Some(s) : s \in RoundStates}
    /\ outgoing = <<>>
    /\ env_calls = <<>>
    /\ pc = "check"
    /\ result = "Running"
    /\ timer_ready = FALSE
    /\ start_state = state
    /\ event = NoEvent
    /\ n_events = 0
    /\ ever_held = IsSome(last_round_state)

Init ==
    /\ voting \in {"No", "Yes", "Primary"}
    /\ state \in {"Start", "None"}
    /\ prevote_timer = (IF state = "Start" THEN "pending" ELSE "dropped")
    /\ precommit_timer = (IF state = "Start" THEN "pending" ELSE "dropped")
    /\ incoming = "open"
    /\ updates \in {"absent", "open"}
    /\ round \in InitRounds
    /\ primary_block = None
    /\ last_round_state \in {None} \cup {Some(s) : s \in RoundStates}
    /\ outgoing = <<>>
    /\ env_calls = <<>>
    /\ pc = "select"
    /\ result = "Running"
    /\ timer_ready = FALSE
    /\ start_state = state
    /\ event = NoEvent
    /\ n_events = 0
    /\ ever_held = IsSome(last_round_state)

(***************************************************************************)
(* handle_inputs!: the select over the incoming stream, the update stream  *)
(* and the timer of the current phase                                      *)
(***************************************************************************)
phase_timer_always_polled(st, prevote_t, precommit_t) ==
    CASE st \in {"Start", "Proposed"} -> prevote_t
      [] st = "Prevoted"              -> precommit_t
      [] OTHER                        -> "pending"

\* the timer future handed to handle_inputs! by the arm of phase st;
\* Precommitted and None hand it future::pending(), which reports terminated
phase_timer(st, prevote_t, precommit_t) ==
    CASE st \in {"Start", "Proposed"} -> prevote_t
      [] st = "Prevoted"              -> precommit_t
      [] OTHER                        -> "terminated"

timer_is_terminated_prevote_only(st, prevote_t, precommit_t) ==
    prevote_t = "terminated"

\* $timer.is_terminated(), the value of handle_inputs!
timer_is_terminated(st, prevote_t, precommit_t) ==
    phase_timer(st, prevote_t, precommit_t) = "terminated"

Selecting == pc = "select" /\ result = "Running"

\* the select is over and an event was consumed: on to the phase logic
Consumed(ev) ==
    /\ event' = ev
    /\ n_events' = n_events + 1
    /\ start_state' = state

\* incoming yields Ok(vote): handle_vote(vote?)?; the event records the vote
\* and whether the ledger imported it and answered with equivocation evidence
RecvVote ==
    /\ Selecting
    /\ incoming = "open"
    /\ n_events < MaxEvents
    /\ \E vote \in SignedMessages :
        \E outcome \in ImportOutcomes(round, vote.message.kind) :
            LET hv == handle_vote(round, primary_block, env_calls, vote, outcome) IN
            /\ Consumed([type |-> "vote", vote |-> vote,
                         evidence |-> hv.round # round /\ outcome.equivocation])
            /\ round' = hv.round
            /\ primary_block' = hv.primary_block
            /\ env_calls' = hv.env_calls
            /\ IF hv.ok
               THEN /\ pc' = "phase"
                    /\ result' = result
                    /\ timer_ready' = timer_is_terminated(state, prevote_timer,
                                                          precommit_timer)
               ELSE /\ pc' = "done"
                    /\ result' = "Err:import"
                    /\ timer_ready' = timer_ready
    /\ UNCHANGED <<voting, state, prevote_timer, precommit_timer, incoming, updates,
                   last_round_state, outgoing, ever_held>>

\* incoming yields Err(e): vote? returns it from run
RecvErr ==
    /\ Selecting
    /\ incoming = "open"
    /\ n_events < MaxEvents
    /\ Consumed([type |-> "stream_err"])
    /\ pc' = "done"
    /\ result' = "Err:incoming"
    /\ UNCHANGED <<voting, state, prevote_timer, precommit_timer, incoming, updates,
                   round, primary_block, last_round_state, outgoing, env_calls,
                   timer_ready, ever_held>>

\* incoming yields None: the Fuse is done, select_next_some stays pending
IncomingEnds ==
    /\ Selecting
    /\ incoming = "open"
    /\ incoming' = "done"
    /\ UNCHANGED <<voting, state, prevote_timer, precommit_timer, updates, round,
                   primary_block, last_round_state, outgoing, env_calls, pc, result,
                   timer_ready, start_state, event, n_events, ever_held>>

RecvUpdateKeepsFirst ==
    /\ Selecting
    /\ updates = "open"
    /\ n_events < MaxEvents
    /\ \E s \in RoundStates :
        /\ Consumed([type |-> "update", snapshot |-> s])
        /\ last_round_state' = IF IsSome(last_round_state) THEN last_round_state
                                ELSE Some(s)
    /\ ever_held' = TRUE
    /\ pc' = "phase"
    /\ timer_ready' = timer_is_terminated(state, prevote_timer, precommit_timer)
    /\ UNCHANGED <<voting, state, prevote_timer, precommit_timer, incoming, updates,
                   round, primary_block, outgoing, env_calls, result>>

\* the update stream yields a snapshot: last_round_state = Some(state)
RecvUpdate ==
    /\ Selecting
    /\ updates = "open"
    /\ n_events < MaxEvents
    /\ \E s \in RoundStates :
        /\ Consumed([type |-> "update", snapshot |-> s])
        /\ last_round_state' = Some(s)
    /\ ever_held' = TRUE
    /\ pc' = "phase"
    /\ timer_ready' = timer_is_terminated(state, prevote_timer, precommit_timer)
    /\ UNCHANGED <<voting, state, prevote_timer, precommit_timer, incoming, updates,
                   round, primary_block, outgoing, env_calls, result>>

\* the update stream yields None (every sender dropped): its Fuse is done
UpdatesEnd ==
    /\ Selecting
    /\ updates = "open"
    /\ updates' = "done"
    /\ UNCHANGED <<voting, state, prevote_timer, precommit_timer, incoming, round,
                   primary_block, last_round_state, outgoing, env_calls, pc, result,
                   timer_ready, start_state, event, n_events, ever_held>>

\* the timer of the current phase resolves; each timer resolves once, so the
\* two timer events of a run are not counted against MaxEvents
TimerFires ==
    /\ Selecting
    /\ phase_timer(state, prevote_timer, precommit_timer) = "pending"
    /\ Consumed([type |-> "timer"])
    /\ prevote_timer' = IF state \in {"Start", "Proposed"} THEN "terminated"
                        ELSE prevote_timer
    /\ precommit_timer' = IF state = "Prevoted" THEN "terminated" ELSE precommit_timer
    /\ timer_ready' = timer_is_terminated(state, prevote_timer', precommit_timer')
    /\ pc' = "phase"
    /\ UNCHANGED <<voting, state, incoming, updates, round, primary_block,
                   last_round_state, outgoing, env_calls, result, ever_held>>

\* every branch of the select is terminated and there is no complete branch
SelectPanics ==
    /\ Selecting
    /\ incoming = "done"
    /\ updates = "done"
    /\ phase_timer(state, prevote_timer, precommit_timer) = "terminated"
    /\ pc' = "done"
    /\ result' = "Panic"
    /\ UNCHANGED <<voting, state, prevote_timer, precommit_timer, incoming, updates,
                   round, primary_block, last_round_state, outgoing, env_calls,
                   timer_ready, start_state, event, n_events, ever_held>>

(***************************************************************************)
(* The rest of the iteration                                               *)
(***************************************************************************)
\* the timers the State written back still owns; the others are dropped
TimersKept(st) ==
    /\ prevote_timer' = IF st \in {"Start", "Proposed"} THEN prevote_timer
                        ELSE "dropped"
    /\ precommit_timer' = IF st \in {"Start", "Proposed", "Prevoted"}
                          THEN precommit_timer ELSE "dropped"

\* whether the arm of the current phase reaches the await of the send in
\* primary_propose
ArmAwaitsSend(proposed_ok) ==
    /\ state = "Start"
    /\ IsSome(last_round_state)
    /\ primary_propose_announce(voting, round, env_calls, Unwrap(last_round_state),
                                proposed_ok).res = "Await"

\* the match arm of the current phase, after handle_inputs!, up to its end or
\* to the await of the send in primary_propose, where the arm is suspended
\* with the State taken and its timers still owned by the arm
PhaseLogic ==
    /\ pc = "phase"
    /\ \E proposed_ok \in BOOLEAN :
        IF ArmAwaitsSend(proposed_ok)
        THEN /\ env_calls' = primary_propose_announce(voting, round, env_calls,
                                  Unwrap(last_round_state), proposed_ok).env_calls
             /\ pc' = "send"
             /\ UNCHANGED <<state, prevote_timer, precommit_timer, outgoing, result>>
        ELSE LET pl == phase_logic(state, voting, round, env_calls, outgoing,
                                   last_round_state, timer_ready, proposed_ok, "Ok")
             IN
             /\ TimersKept(pl.state)
             /\ env_calls' = pl.env_calls
             /\ outgoing' = pl.outgoing
             /\ state' = pl.state
             /\ IF pl.res = "Ok"
                THEN pc' = "check" /\ result' = result
                ELSE pc' = "done" /\ result' = pl.res
    /\ event' = [type |-> event.type]
    /\ UNCHANGED <<voting, incoming, updates, round, primary_block, last_round_state,
                   timer_ready, start_state, n_events, ever_held>>

\* the sink awaited by outgoing.send(..) becomes ready and takes the hint,
\* or fails before it has; while it is not ready run stays here
SendStarts ==
    /\ pc = "send"
    /\ \E accepted \in BOOLEAN :
        LET lrs == Unwrap(last_round_state)
            s == primary_propose_start_send(outgoing, hint_of(Unwrap(lrs.estimate)),
                                            accepted)
        IN
        /\ outgoing' = s.outgoing
        /\ IF s.res = "Await"
           THEN pc' = "flush" /\ result' = result
           ELSE pc' = "done" /\ result' = s.res
    /\ UNCHANGED <<voting, state, prevote_timer, precommit_timer, incoming, updates,
                   round, primary_block, last_round_state, env_calls, timer_ready,
                   start_state, event, n_events, ever_held>>

\* the flush of the send resolves and, unless it failed, the Start arm runs
\* to its end; while the flush is pending run stays here, the hint on the sink
SendFlushes ==
    /\ pc = "flush"
    /\ \E flushed \in BOOLEAN :
        LET pl == start_arm_resume(state, env_calls, outgoing, Unwrap(last_round_state),
                                   timer_ready, flushed)
        IN
        /\ TimersKept(pl.state)
        /\ state' = pl.state
        /\ IF pl.res = "Ok"
           THEN pc' = "check" /\ result' = result
           ELSE pc' = "done" /\ result' = pl.res
    /\ UNCHANGED <<voting, incoming, updates, round, primary_block, last_round_state,
                   outgoing, env_calls, timer_ready, start_state, event, n_events,
                   ever_held>>

\* if self.round.completable() { ... return Ok(()) }, else the next iteration
CompletionCheck ==
    /\ pc = "check"
    /\ IF round_finished(last_round_state, round)
       THEN /\ pc' = "done"
            /\ result' = "Ok"
            /\ UNCHANGED <<timer_ready, start_state, event>>
       ELSE /\ pc' = "select"
            /\ result' = result
            /\ timer_ready' = FALSE
            /\ start_state' = state
            /\ event' = NoEvent
    /\ UNCHANGED <<voting, state, prevote_timer, precommit_timer, incoming, updates,
                   round, primary_block, last_round_state, outgoing, env_calls,
                   n_events, ever_held>>

Next ==
    \/ RecvVote
    \/ RecvErr
    \/ IncomingEnds
    \/ RecvUpdate
    \/ UpdatesEnd
    \/ TimerFires
    \/ SelectPanics
    \/ PhaseLogic
    \/ SendStarts
    \/ SendFlushes
    \/ CompletionCheck

Spec == Init /\ [][Next]_vars

\* The driver under a fair select, for a round constructed in phase Start
\* (the one that owns both timers) whose ledger is neither completable nor
\* finalized at construction (run returns only once votes make it so). The
\* driver's task is polled until run returns and a timer that is polled
\* resolves after its delay: no synchronous step of an iteration and no
\* pending timer of the current phase waits forever. The streams are free
\* never to yield and the sink is free never to become ready.
FairInit ==
    /\ Init
    /\ state = "Start"
    /\ ~round.completable
    /\ round.finalized = None

FairSpec ==
    /\ FairInit
    /\ [][Next]_vars
    /\ WF_vars(TimerFires)
    /\ WF_vars(PhaseLogic)
    /\ WF_vars(CompletionCheck)

(***************************************************************************)
(* Properties                                                              *)
(***************************************************************************)
Phases == {"Start", "Proposed", "Prevoted", "Precommitted"}

PhaseRank(st) ==
    CASE st = "Start"        -> 1
      [] st = "Proposed"     -> 2
      [] st = "Prevoted"     -> 3
      [] st = "Precommitted" -> 4
      [] OTHER               -> 0

IsErr(res) == res \in {"Err:incoming", "Err:import", "Err:proposed", "Err:sink"}

\* the messages of a kind among the sends attempted on the sink
OfKind(out, k) == SelectSeq(out, LAMBDA e : e.msg.kind = k)

\* the sends whose message the sink accepted
Sent(out) == SelectSeq(out, LAMBDA e : e.ok)

\* the calls of one notification in the Environment's log
CallsOf(calls, name) == SelectSeq(calls, LAMBDA c : c.call = name)

\* whether the snapshot maybe_lrs has an estimate at or below the number in maybe_block
EstimateAtMost(maybe_lrs, maybe_block) ==
    /\ IsSome(maybe_lrs)
    /\ IsSome(Unwrap(maybe_lrs).estimate)
    /\ IsSome(maybe_block)
    /\ Unwrap(Unwrap(maybe_lrs).estimate)[2] <= Unwrap(maybe_block)[2]

\* the held snapshot's estimate is finalized in the previous round
FinalizedInLastRound ==
    /\ IsSome(last_round_state)
    /\ EstimateAtMost(last_round_state, Unwrap(last_round_state).finalized)

\* the held snapshot's estimate is finalized in the current round
FinalizedInCurrentRound == EstimateAtMost(last_round_state, round.finalized)

\* C1: run returns Ok only from the completion check that ends an iteration,
\* and only when the ledger is completable and either no snapshot was ever
\* held or the held snapshot's estimate is at or below the snapshot's own
\* finalized number or the current round's finalized number.
C1_ReturnsOnlyWhenSafe ==
    [][(result # "Ok" /\ result' = "Ok") =>
          /\ pc = "check"
          /\ n_events >= 1
          /\ round.completable
          /\ \/ ~ever_held
             \/ FinalizedInLastRound
             \/ FinalizedInCurrentRound]_vars

\* run has returned Ok with a snapshot whose estimate (C) is above the
\* snapshot's finalized block (B) and finalized by the current round
C1_Witness ==
    /\ result = "Ok"
    /\ ever_held
    /\ ~FinalizedInLastRound
    /\ FinalizedInCurrentRound

\* C2: at the end of an iteration with the ledger completable and a held
\* snapshot that has an estimate, run returns Ok if the snapshot's finalized
\* number or the current round's finalized number is at or above the
\* estimate's number, the latter whether or not the snapshot has a finalized
\* block.
C2_ReturnsWhenEstimateFinalized ==
    [][(/\ pc = "check"
        /\ round.completable
        /\ (FinalizedInLastRound \/ FinalizedInCurrentRound)) => result' = "Ok"]_vars

\* C3: handle_vote on a message of any kind whose target is neither the round
\* base nor a descendant of it returns Ok and leaves the ledger, the cached
\* primary block and the phase as they were, and calls nothing on the
\* Environment.
C3_VoteBelowBaseIgnored ==
    [][(/\ n_events' = n_events + 1
        /\ event'.type = "vote"
        /\ ~is_equal_or_descendent_of(round.base[1], event'.vote.message.target_hash))
       => /\ result' = "Running"
          /\ pc' = "phase"
          /\ round' = round
          /\ primary_block' = primary_block
          /\ state' = state
          /\ env_calls' = env_calls]_vars

\* handle_vote has just returned from a Precommit by the primary voter for
\* block A, below the base B, with a signature the ledger would reject
C3_Witness ==
    /\ pc = "phase"
    /\ event.type = "vote"
    /\ event.vote.message.target_hash = "A"
    /\ event.vote.message.kind = "Precommit"
    /\ event.vote.signature = "bad"
    /\ event.vote.id = round.primary_voter

\* C4: the phase never regresses: every step leaves a driver that has a phase
\* in that phase or a later one of Start < Proposed < Prevoted < Precommitted.
C4_PhaseNeverRegresses ==
    [][(state \in Phases) =>
          (state' \in Phases /\ PhaseRank(state') >= PhaseRank(state))]_vars

\* the driver went from Start through Prevoted to Precommitted
C4_Witness ==
    /\ state = "Precommitted"
    /\ start_state = "Prevoted"
    /\ pc = "check"

\* C5: at most one PrimaryPropose is put on the sink in a run, only by a
\* Primary driver and only in an iteration that started in phase Start.
C5_AtMostOnePrimaryPropose ==
    [][Len(OfKind(outgoing', "PrimaryPropose")) > Len(OfKind(outgoing, "PrimaryPropose"))
       => /\ OfKind(outgoing, "PrimaryPropose") = <<>>
          /\ Len(OfKind(outgoing', "PrimaryPropose")) = 1
          /\ voting = "Primary"
          /\ start_state = "Start"
          /\ state = "Start"]_vars

\* a PrimaryPropose is on the sink and the driver has been through two
\* further iterations since
C5_Witness ==
    /\ Len(Sent(OfKind(outgoing, "PrimaryPropose"))) = 1
    /\ state = "Precommitted"
    /\ pc = "select"

\* the role is Primary and the held snapshot has an estimate that is above
\* the snapshot's finalized block, or the snapshot has no finalized block
HintConditions ==
    /\ voting = "Primary"
    /\ IsSome(last_round_state)
    /\ LET lrs == Unwrap(last_round_state) IN
       /\ lrs.estimate # None
       /\ \/ lrs.finalized = None
          \/ lrs.estimate[1][2] > lrs.finalized[1][2]

\* primary_propose is about to run: the Start arm with a snapshot held
ProposeCalled == pc = "phase" /\ state = "Start" /\ IsSome(last_round_state)

\* the step puts a message on the sink
PutsOnSink == Len(Sent(outgoing')) = Len(Sent(outgoing)) + 1

\* the PrimaryPropose naming the held snapshot's estimate
EstimateHint ==
    [kind |-> "PrimaryPropose",
     target_hash |-> Unwrap(last_round_state).estimate[1][1],
     target_number |-> Unwrap(last_round_state).estimate[1][2]]

\* primary_propose is suspended at the await of its send, the sink not yet
\* ready
SendAwaited == pc = "send"

\* primary_propose is suspended at the await of its send, the hint on the
\* sink and not yet flushed
FlushAwaited == pc = "flush"

\* C6 as stated: primary_propose sends a hint if and only if the role is
\* Primary, the snapshot has an estimate and the snapshot's finalized block is
\* absent or strictly below the estimate; the hint names the estimate.
C6_HintSentIffEstimateUnfinalized ==
    [][/\ ProposeCalled => (pc' = "send" <=> HintConditions)
       /\ SendAwaited => PutsOnSink
       /\ PutsOnSink => (/\ SendAwaited
                         /\ HintConditions
                         /\ outgoing'[Len(outgoing')].msg = EstimateHint)]_vars

\* C6 amended: primary_propose returns true if and only if the role is
\* Primary, the snapshot has an estimate, the snapshot's finalized block is
\* absent or strictly below the estimate, and neither the proposed
\* notification nor the send on the sink fails. Under the first three
\* conditions it calls the notification, otherwise it calls and sends
\* nothing. The send is awaited only after a notification that succeeded; a
\* sink that fails before it has taken the hint leaves nothing on the sink,
\* one that fails at the flush leaves the hint on the sink, and both end
\* primary_propose with the sink's error. Only primary_propose puts anything
\* on the sink, and what it puts there names exactly the estimate.
C6_HintSentIffDueAndEnvironmentOk ==
    [][/\ ProposeCalled =>
             /\ pc' = "send" <=> (HintConditions /\ result' = "Running")
             /\ HintConditions <=> (Len(env_calls') = Len(env_calls) + 1)
             /\ outgoing' = outgoing
             /\ ~HintConditions => result' = "Running"
             /\ \A proposed_ok \in BOOLEAN, send_outcome \in SendOutcomes :
                   LET pp == primary_propose(voting, round, env_calls, outgoing,
                                             Unwrap(last_round_state), proposed_ok,
                                             send_outcome)
                   IN /\ (pp.res = "Ok" /\ pp.value)
                            <=> (HintConditions /\ proposed_ok /\ send_outcome = "Ok")
                      /\ (Len(Sent(pp.outgoing)) = Len(Sent(outgoing)) + 1)
                            <=> (/\ HintConditions
                                 /\ proposed_ok
                                 /\ send_outcome \in {"Ok", "FlushFailed"})
                      /\ (Len(Sent(pp.outgoing)) = Len(Sent(outgoing)) + 1)
                            \/ Sent(pp.outgoing) = Sent(outgoing)
                      /\ pp.res \in {"Ok", "Err:proposed", "Err:sink"}
                      /\ (pp.res = "Err:sink") <=> (/\ HintConditions
                                                   /\ proposed_ok
                                                   /\ send_outcome # "Ok")
       /\ (pc # "send" /\ pc' = "send") => ProposeCalled
       /\ SendAwaited =>
             /\ HintConditions
             /\ PutsOnSink <=> pc' = "flush"
             /\ ~PutsOnSink => result' = "Err:sink"
       /\ (pc # "flush" /\ pc' = "flush") => SendAwaited
       /\ FlushAwaited =>
             /\ outgoing' = outgoing
             /\ pc' = "check" \/ result' = "Err:sink"
       /\ PutsOnSink => (/\ SendAwaited
                         /\ outgoing'[Len(outgoing')].msg = EstimateHint)]_vars

\* a Primary driver has sent the hint for estimate C with B finalized
C6_Witness ==
    /\ pc = "check"
    /\ start_state = "Start"
    /\ IsSome(last_round_state)
    /\ Unwrap(last_round_state) = [estimate |-> Some(BlockC), finalized |-> Some(BlockB)]
    /\ Sent(outgoing) = <<[msg |-> MessageOf("PrimaryPropose", BlockC), ok |-> TRUE]>>

\* C7: the phase moves from Start or Proposed to Prevoted only in an iteration
\* whose prevote timer flag is set or whose ledger is completable, and from
\* Prevoted to Precommitted only if the precommit timer flag is set or the
\* ledger is completable.
C7_VoteOnlyOnTimerOrThreshold ==
    [][/\ (state \in {"Start", "Proposed"} /\ state' = "Prevoted")
            => (timer_ready \/ round.completable)
       /\ (state = "Prevoted" /\ state' = "Precommitted")
            => (timer_ready \/ round.completable)]_vars

\* C8: for an active role the transition to Prevoted puts exactly one Prevote
\* on the sink and the transition to Precommitted exactly one Precommit, and
\* no vote of either kind is sent in any other step.
C8_OneVotePerTransition ==
    [][is_active(voting) =>
          /\ Len(OfKind(outgoing', "Prevote")) = Len(OfKind(outgoing, "Prevote")) +
                (IF state \in {"Start", "Proposed"} /\ state' = "Prevoted" THEN 1 ELSE 0)
          /\ Len(OfKind(outgoing', "Precommit")) = Len(OfKind(outgoing, "Precommit")) +
                (IF state = "Prevoted" /\ state' = "Precommitted" THEN 1 ELSE 0)]_vars

\* C9: a Silent driver puts nothing on the sink and never calls the proposed
\* notification, and its phase logic writes back the phase that the phase
\* logic of a Voter driver writes back from the same state.
C9_SilentAdvancesWithoutSending ==
    [][(voting = "No") =>
          /\ outgoing' = <<>>
          /\ CallsOf(env_calls', "proposed") = <<>>
          /\ pc = "phase" =>
                state' = phase_logic(state, "Yes", round, env_calls, outgoing,
                                     last_round_state, timer_ready, TRUE, "Ok").state]_vars

\* a Silent driver reached Precommitted holding a snapshot for which a
\* Primary driver sends a hint
C9_Witness ==
    /\ voting = "No"
    /\ state = "Precommitted"
    /\ start_state = "Prevoted"
    /\ last_round_state = Some([estimate |-> Some(BlockC), finalized |-> None])
    /\ outgoing = <<>>

\* the step consumes a Prevote or Precommit at or above the base that the
\* ledger rejects
ImportRejected ==
    /\ n_events' = n_events + 1
    /\ event'.type = "vote"
    /\ event'.vote.message.kind \in {"Prevote", "Precommit"}
    /\ is_equal_or_descendent_of(round.base[1], event'.vote.message.target_hash)
    /\ event'.vote.signature = "bad"

\* the step makes a call of the proposed notification that fails
ProposedFailed ==
    /\ Len(env_calls') = Len(env_calls) + 1
    /\ env_calls'[Len(env_calls')].call = "proposed"
    /\ ~env_calls'[Len(env_calls')].ok

\* the step makes a send on the sink that fails: the sink fails before it
\* has taken the message, or the flush that was awaited ends run
SendFailed ==
    \/ /\ Len(outgoing') = Len(outgoing) + 1
       /\ ~outgoing'[Len(outgoing')].ok
    \/ pc = "flush" /\ pc' = "done"

\* C10: an Err item on the incoming stream, a ledger rejection of an import,
\* a failed proposed notification and a failed send each end run with that
\* error in the step where they happen, the phase being left as it was; once
\* run has returned an error no further step is taken.
C10_FatalErrorsEndRun ==
    [][/\ ~IsErr(result)
       /\ (n_events' = n_events + 1 /\ event'.type = "stream_err")
            => result' = "Err:incoming"
       /\ ImportRejected => result' = "Err:import"
       /\ ProposedFailed => (result' = "Err:proposed" /\ outgoing' = outgoing)
       /\ SendFailed => result' = "Err:sink"
       /\ IsErr(result') => (pc' = "done" /\ state' = state)]_vars

\* run ended with the sink's error in its second iteration or later
C10_Witness ==
    /\ result = "Err:sink"
    /\ n_events >= 2
    /\ pc = "done"

\* the step consumes a vote from the incoming stream
VoteConsumed == n_events' = n_events + 1 /\ event'.type = "vote"

\* the equivocation callback of a message kind
EquivocationCallback(kind) ==
    IF kind = "Prevote" THEN "prevote_equivocation" ELSE "precommit_equivocation"

\* C11: when the ledger's import of a Prevote or Precommit returns
\* equivocation evidence, handle_vote calls the equivocation callback of that
\* kind exactly once, with this round's number and that evidence, returns Ok,
\* and the driver goes on to the phase logic of the iteration; a vote whose
\* import returns no evidence calls nothing.
C11_EquivocationReportedOnce ==
    [][VoteConsumed =>
          IF event'.evidence
          THEN /\ env_calls' =
                     Append(env_calls,
                            EnvCall(EquivocationCallback(event'.vote.message.kind),
                                    round.number, [offender |-> event'.vote.id], TRUE))
               /\ event'.vote.message.kind \in {"Prevote", "Precommit"}
               /\ result' = "Running"
               /\ pc' = "phase"
          ELSE env_calls' = env_calls]_vars

\* the second Precommit was found to equivocate and reported, and the driver
\* is about to run the phase logic of Prevoted
C11_Witness ==
    /\ pc = "phase"
    /\ result = "Running"
    /\ state = "Prevoted"
    /\ event.type = "vote"
    /\ event.evidence
    /\ Len(CallsOf(env_calls, "precommit_equivocation")) = 1

\* the step consumes a PrimaryPropose whose target is the base or a descendant
HintPassesFilter ==
    /\ VoteConsumed
    /\ event'.vote.message.kind = "PrimaryPropose"
    /\ is_equal_or_descendent_of(round.base[1], event'.vote.message.target_hash)

\* C12: a PrimaryPropose that passes the base filter sets the cached primary
\* block to the hint's (hash, number) if its signer is the ledger's primary
\* voter and leaves the cache as it was otherwise; in both cases handle_vote
\* returns Ok and neither the ledger nor the Environment's log changes.
C12_HintCachedIffFromPrimary ==
    [][HintPassesFilter =>
          /\ primary_block' =
                IF event'.vote.id = round.primary_voter
                THEN Some(<<event'.vote.message.target_hash,
                            event'.vote.message.target_number>>)
                ELSE primary_block
          /\ result' = "Running"
          /\ pc' = "phase"
          /\ round' = round
          /\ env_calls' = env_calls]_vars

\* the hint for C signed by a voter other than the primary was just handled
\* and the cache still holds B, the primary voter's earlier hint
C12_Witness ==
    /\ pc = "phase"
    /\ event.type = "vote"
    /\ event.vote.message = MessageOf("PrimaryPropose", BlockC)
    /\ event.vote.id # round.primary_voter
    /\ primary_block = Some(BlockB)

\* C13: when a Primary driver in phase Start sends the hint in an iteration
\* (the send of primary_propose returns Ok), the phase written back at the
\* end of that iteration is Proposed.
C13_HintSentLeadsToProposed ==
    [][(/\ voting = "Primary"
        /\ state = "Start"
        /\ pc = "flush"
        /\ pc' = "check")
       => state' = "Proposed"]_vars

\* the step consumes a snapshot from the update stream
UpdateConsumed == n_events' = n_events + 1 /\ event'.type = "update"

\* C14: while no snapshot is held, every step leaves the phase as it was,
\* nothing is on the sink and the proposed notification has not been called,
\* whatever votes arrive and timers fire; a snapshot that is held is never
\* absent again, and the held snapshot is replaced only by an update, which
\* always leaves exactly the snapshot it carried.
C14_NothingWithoutSnapshot ==
    [][/\ last_round_state' = None =>
             /\ state' = state
             /\ outgoing' = <<>>
             /\ CallsOf(env_calls', "proposed") = <<>>
       /\ IsSome(last_round_state) => IsSome(last_round_state')
       /\ last_round_state' =
             IF UpdateConsumed THEN Some(event'.snapshot) ELSE last_round_state]_vars

\* the prevote timer fired and a vote was imported with the threshold met,
\* and a Primary driver without a snapshot is still in Start
C14_Witness ==
    /\ last_round_state = None
    /\ voting = "Primary"
    /\ state = "Start"
    /\ prevote_timer = "terminated"
    /\ round.completable
    /\ round.prevotes >= 1
    /\ n_events >= 2
    /\ pc = "check"

\* the step consumes the firing of a timer
TimerConsumed == n_events' = n_events + 1 /\ event'.type = "timer"

\* the step is a select that hands an event to the phase logic
EventHandedOn == pc = "select" /\ pc' = "phase"

\* C15: a timer event is consumed only in Start, Proposed or Prevoted, and it
\* is the firing of the phase's own timer (the prevote timer in Start and
\* Proposed, the precommit timer in Prevoted), which had not fired before; a
\* timer fires in no other step and never becomes pending again. The
\* timer-ready flag of an iteration in one of these phases is true exactly if
\* the phase's timer has fired in this iteration or an earlier one.
C15_TimersFireOnceInTheirPhase ==
    [][/\ TimerConsumed =>
             /\ state \in {"Start", "Proposed", "Prevoted"}
             /\ IF state = "Prevoted"
                THEN /\ precommit_timer = "pending"
                     /\ precommit_timer' = "terminated"
                     /\ prevote_timer' = prevote_timer
                ELSE /\ prevote_timer = "pending"
                     /\ prevote_timer' = "terminated"
                     /\ precommit_timer' = precommit_timer
             /\ timer_ready'
       /\ (prevote_timer # "terminated" /\ prevote_timer' = "terminated") => TimerConsumed
       /\ (precommit_timer # "terminated" /\ precommit_timer' = "terminated")
             => TimerConsumed
       /\ prevote_timer # "pending" => prevote_timer' # "pending"
       /\ precommit_timer # "pending" => precommit_timer' # "pending"
       /\ (EventHandedOn /\ state \in {"Start", "Proposed"})
             => (timer_ready' <=> prevote_timer' = "terminated")
       /\ (EventHandedOn /\ state = "Prevoted")
             => (timer_ready' <=> precommit_timer' = "terminated")]_vars

\* the prevote timer fired in an earlier iteration and a vote is handed to the
\* phase logic of Start with the flag set
C15_Witness ==
    /\ pc = "phase"
    /\ state = "Start"
    /\ event.type = "vote"
    /\ prevote_timer = "terminated"
    /\ timer_ready

\* a driver that has a phase and holds a snapshot
HoldsSnapshotInPhase == IsSome(last_round_state) /\ state \in Phases

\* the driver is in Precommitted or run has returned Ok or an error
PrecommittedOrReturned == state = "Precommitted" \/ result = "Ok" \/ IsErr(result)

\* C16 as stated: under a fair select, from any state in which the driver has
\* a phase and holds a snapshot, it eventually is in phase Precommitted or run
\* has returned Ok or an error, even if no vote and no update ever arrives.
C16_ReachesPrecommittedOrReturns ==
    [](HoldsSnapshotInPhase => <>PrecommittedOrReturned)

\* C16 amended: the same, in every run in which the send of the primary hint
\* does not stay pending forever (the sink eventually takes the hint or
\* fails).
C16_ReachesPrecommittedIfSendResolves ==
    []<>(pc \notin {"send", "flush"})
        => [](HoldsSnapshotInPhase => <>PrecommittedOrReturned)

\* a Primary driver whose sink took the hint went from Start to Precommitted
\* on its two timers alone, with no update stream and no vote imported
C16_Witness ==
    /\ state = "Precommitted"
    /\ voting = "Primary"
    /\ Len(Sent(outgoing)) = 1
    /\ start_state = "Prevoted"
    /\ pc = "check"
    /\ event.type = "timer"
    /\ n_events = 2
    /\ prevote_timer = "dropped"
    /\ updates = "absent"
    /\ round.prevotes = 0
    /\ round.precommits = 0

\* C17: once the incoming stream is exhausted it stays exhausted and yields
\* no further item, the step in which it is exhausted leaves run running, and
\* no select made with the incoming stream exhausted ends run: the driver
\* waits on the other sources, in every phase and whatever the update stream.
C17_ExhaustedIncomingKeepsWaiting ==
    [][/\ incoming = "done" =>
             /\ incoming' = "done"
             /\ ~VoteConsumed
             /\ ~(n_events' = n_events + 1 /\ event'.type = "stream_err")
       /\ (incoming = "open" /\ incoming' = "done") =>
             (result' = "Running" /\ pc' = "select")
       /\ (Selecting /\ incoming = "done") => result' = "Running"]_vars

\* the kinds of event a select can consume
EventTypes == {"vote", "stream_err", "update", "timer"}

\* C18: run returns Ok only from a completion check that follows the
\* consumption of a vote, an update or a timer firing in the same iteration,
\* so never before one event was consumed; every select that leaves for the
\* phase logic or returns an error consumes exactly one event, the phase
\* logic, the send it may await and the completion check consume none, and
\* they run only in that order after a select.
C18_OneEventBeforeEachCheck ==
    [][/\ (result # "Ok" /\ result' = "Ok") =>
             /\ pc = "check"
             /\ n_events >= 1
             /\ event.type \in {"vote", "update", "timer"}
       /\ (pc = "select" /\ pc' # "select" /\ result' # "Panic") =>
             (n_events' = n_events + 1 /\ event'.type \in EventTypes)
       /\ pc = "select" => n_events' \in {n_events, n_events + 1}
       /\ pc # "select" => n_events' = n_events
       /\ pc' = "phase" => pc = "select"
       /\ pc' = "send" => pc \in {"phase", "send"}
       /\ pc' = "flush" => pc \in {"send", "flush"}
       /\ pc' = "check" => pc \in {"phase", "flush"}]_vars

\* run returned Ok after a single timer event, from a ledger that was
\* completable at construction, without a snapshot and without any import
C18_Witness ==
    /\ result = "Ok"
    /\ n_events = 1
    /\ event.type = "timer"
    /\ last_round_state = None
    /\ round.prevotes = 0
    /\ round.precommits = 0

\* C19: a PrimaryPropose is handed to the sink only after a call of the
\* proposed notification that succeeded, made in the same iteration with
\* this round's number and the same hint, and no other call is made in
\* between; a failed notification ends run with nothing sent; the
\* notification is called at most once in a run.
C19_HintAnnouncedBeforeSent ==
    [][/\ (pc # "send" /\ pc' = "send") =>
             /\ pc = "phase"
             /\ outgoing' = outgoing
             /\ env_calls' = Append(env_calls,
                                    EnvCall("proposed", round.number, EstimateHint, TRUE))
       /\ pc \in {"send", "flush"} => (n_events' = n_events /\ env_calls' = env_calls)
       /\ Len(OfKind(outgoing', "PrimaryPropose")) > Len(OfKind(outgoing, "PrimaryPropose"))
             => /\ pc = "send"
                /\ outgoing' = Append(outgoing, outgoing'[Len(outgoing')])
                /\ outgoing'[Len(outgoing')].msg = EstimateHint
       /\ ProposedFailed => (outgoing' = outgoing /\ pc' = "done")
       /\ Len(CallsOf(env_calls', "proposed")) <= 1]_vars

\* a driver that started without a snapshot has announced and sent the hint
\* for C in a later iteration, after an equivocation report
C19_Witness ==
    /\ Len(Sent(outgoing)) = 1
    /\ outgoing[1].msg = MessageOf("PrimaryPropose", BlockC)
    /\ Len(env_calls) = 2
    /\ env_calls[1].call = "prevote_equivocation"
    /\ env_calls[2] = EnvCall("proposed", round.number,
                              MessageOf("PrimaryPropose", BlockC), TRUE)
    /\ pc = "check"

\* C20: a driver without a phase stays without one: no step gives it a phase,
\* polls or fires a timer, puts anything on the sink or calls the proposed
\* notification, and the only events it consumes are items of the incoming
\* stream and updates.
C20_NoPhaseStaysNoPhase ==
    [][state = "None" =>
          /\ state' = "None"
          /\ outgoing' = <<>>
          /\ CallsOf(env_calls', "proposed") = <<>>
          /\ prevote_timer' = "dropped"
          /\ precommit_timer' = "dropped"
          /\ ~TimerConsumed
          /\ n_events' = n_events + 1 =>
                event'.type \in {"vote", "stream_err", "update"}]_vars

\* a driver without a phase returned Ok from the completion check of its
\* third iteration, after an update and an import
C20_Witness ==
    /\ state = "None"
    /\ result = "Ok"
    /\ n_events = 3
    /\ IsSome(last_round_state)
    /\ round.precommits >= 1

====
